---- MODULE Spec2Model ----
(***************************************************************************)
(* A model of check-external-links.js: the ExternalLinksChecker class and  *)
(* the command-line process that runs it over HTML files.  Texts are TLA+  *)
(* strings; the regular expressions of the source are written out as       *)
(* character-level matchers.                                               *)
(***************************************************************************)
EXTENDS Integers, Sequences, FiniteSets, TLC

(***************************************************************************)
(* Bounds of the model.                                                    *)
(***************************************************************************)
\* the largest number of target=_blank tags in the document a.html
MaxTags == 2
\* the number of times, over all runs, that the tool rewrites a file
MaxWrites == 2
\* the number of times run is called on one checker instance
MaxCalls == 2

(***************************************************************************)
(* JavaScript string primitives.                                           *)
(***************************************************************************)
\* null, undefined and the empty string are all falsy; extracted attribute
\* values are never empty ([^"']+), so "" stands for null.
NULL == ""

Ch(s, i) == IF i >= 1 /\ i <= Len(s) THEN SubSeq(s, i, i) ELSE ""

Max(a, b) == IF a >= b THEN a ELSE b
Min(a, b) == IF a <= b THEN a ELSE b

\* String.prototype.slice(a, b) with 0-based non-negative offsets, clamped.
Slice(s, a, b) == SubSeq(s, Min(a, Len(s)) + 1, Min(b, Len(s)))

\* String.prototype.slice(a)
SliceFrom(s, a) == SubSeq(s, Min(a, Len(s)) + 1, Len(s))

UpperAlpha == "ABCDEFGHIJKLMNOPQRSTUVWXYZ"
LowerAlpha == "abcdefghijklmnopqrstuvwxyz"

\* the lower-case letter of every upper-case letter
LowerMap ==
  [c \in {SubSeq(UpperAlpha, k, k) : k \in 1..26} |->
     LET k == CHOOSE k \in 1..26 : SubSeq(UpperAlpha, k, k) = c
     IN  SubSeq(LowerAlpha, k, k)]

LowerChar(c) == IF c \in DOMAIN LowerMap THEN LowerMap[c] ELSE c

RECURSIVE LowerFrom(_, _)
LowerFrom(s, i) == IF i > Len(s) THEN "" ELSE LowerChar(Ch(s, i)) \o LowerFrom(s, i + 1)

\* String.prototype.toLowerCase
toLowerCase(s) == LowerFrom(s, 1)

\* String.prototype.startsWith
startsWith(s, p) == Len(s) >= Len(p) /\ SubSeq(s, 1, Len(p)) = p

\* String.prototype.endsWith
endsWith(s, p) == Len(s) >= Len(p) /\ SubSeq(s, Len(s) - Len(p) + 1, Len(s)) = p

\* the least member of a non-empty set of positions
Least(S) == CHOOSE k \in S : \A m \in S : k <= m

\* String.prototype.indexOf, 0-based, -1 when absent
indexOf(s, p) ==
  LET hits == {k \in 1..(Len(s) - Len(p) + 1) : SubSeq(s, k, k + Len(p) - 1) = p}
  IN  IF hits = {} THEN -1 ELSE Least(hits) - 1

\* the regular expression class \s, over the characters of the model
IsSpace(c) == c \in {" ", "\t", "\n"}

\* the regular expression class ["']
IsQuote(c) == c \in {"\"", "'"}

\* a literal of a regular expression with the i flag, at 1-based position i
MatchCI(s, i, lit) ==
  /\ i >= 1
  /\ i + Len(lit) - 1 <= Len(s)
  /\ \A j \in 1..Len(lit) : LowerChar(Ch(s, i + j - 1)) = Ch(lit, j)

\* \s* from position i: the first position that holds no white space
RECURSIVE SkipSpace(_, _)
SkipSpace(s, i) == IF IsSpace(Ch(s, i)) THEN SkipSpace(s, i + 1) ELSE i

\* [^"']* from position i: the position of the next quote, Len(s)+1 if none
NextQuote(s, i) ==
  LET hits == {k \in i..Len(s) : IsQuote(Ch(s, k))}
  IN  IF hits = {} THEN Max(i, Len(s) + 1) ELSE Least(hits)

\* the position of the next character c at or after i, Len(s)+1 if none
NextChar(s, i, c) ==
  LET hits == {k \in i..Len(s) : Ch(s, k) = c}
  IN  IF hits = {} THEN Max(i, Len(s) + 1) ELSE Least(hits)

\* the number of characters c in s
CountChar(s, c) == Cardinality({k \in 1..Len(s) : Ch(s, k) = c})

\* Array.prototype.includes
includes(seq, x) == \E k \in 1..Len(seq) : seq[k] = x

\* String.prototype.split(/\s+/): the pieces between maximal runs of white
\* space; a leading or trailing run leaves an empty first or last piece.
RECURSIVE SplitFrom(_, _, _)
SplitFrom(s, i, cur) ==
  IF i > Len(s) THEN <<cur>>
  ELSE IF IsSpace(Ch(s, i)) THEN <<cur>> \o SplitFrom(s, SkipSpace(s, i), "")
  ELSE SplitFrom(s, i + 1, cur \o Ch(s, i))

splitSpace(s) == SplitFrom(s, 1, "")

\* Array.prototype.join(' ')
RECURSIVE join(_)
join(seq) ==
  IF Len(seq) = 0 THEN ""
  ELSE IF Len(seq) = 1 THEN seq[1]
  ELSE seq[1] \o " " \o join(Tail(seq))

(***************************************************************************)
(* The regular expressions of the checker.                                 *)
(***************************************************************************)
\* name\s*=\s*["'] with the i flag, anchored at position k: the position of
\* the opening quote, 0 when there is no match
AttrOpen(s, k, name) ==
  IF ~MatchCI(s, k, name) THEN 0
  ELSE LET e == SkipSpace(s, k + Len(name))
       IN  IF Ch(s, e) # "=" THEN 0
           ELSE LET q == SkipSpace(s, e + 1)
                IN  IF IsQuote(Ch(s, q)) THEN q ELSE 0

\* name\s*=\s*["'][^"']{least,}["'] anchored at k: the position of the
\* closing quote, 0 when there is no match
AttrClose(s, k, name, least) ==
  LET q == AttrOpen(s, k, name)
  IN  IF q = 0 THEN 0
      ELSE LET c == NextQuote(s, q + 1)
           IN  IF c <= Len(s) /\ c - q - 1 >= least THEN c ELSE 0

\* the position where the leftmost match of the attribute pattern starts,
\* 0 when the pattern matches nowhere in s
FirstAttr(s, name, least) ==
  LET hits == {k \in 1..Len(s) : AttrClose(s, k, name, least) # 0}
  IN  IF hits = {} THEN 0 ELSE Least(hits)

\* linkTag.match(/name\s*=\s*["']([^"']+)["']/i): the captured value, NULL
\* when there is no match
AttrValue(s, name) ==
  LET k == FirstAttr(s, name, 1)
  IN  IF k = 0 THEN NULL
      ELSE SubSeq(s, AttrOpen(s, k, name) + 1, AttrClose(s, k, name, 1) - 1)

\* target\s*=\s*["']_blank["'] with the i flag, anchored at position k
TargetAt(s, k) ==
  LET q == AttrOpen(s, k, "target")
  IN  /\ q # 0
      /\ MatchCI(s, q + 1, "_blank")
      /\ IsQuote(Ch(s, q + 7))

\* a faulty variant: the match runs on to the last '>' of the text
LinkAtLast(s, k) ==
  IF ~MatchCI(s, k, "<a") THEN 0
  ELSE LET ends == {g \in (k + 2)..Len(s) : Ch(s, g) = ">"}
       IN  IF ends # {} /\ \E p \in (k + 2)..Len(s) : TargetAt(s, p)
           THEN CHOOSE g \in ends : \A h \in ends : h <= g
           ELSE 0

\* linkRegex anchored at position k: the position of the closing '>' of the
\* match, 0 when there is no match.  [^>]* cannot pass a '>', so the match
\* ends at the first '>' after "<a" and needs the target pattern before it.
LinkAt(s, k) ==
  IF ~MatchCI(s, k, "<a") THEN 0
  ELSE LET g == NextChar(s, k + 2, ">")
       IN  IF g <= Len(s) /\ \E p \in (k + 2)..(g - 1) : TargetAt(s, p)
           THEN g ELSE 0

(***************************************************************************)
(* ExternalLinksChecker: the methods without side effects.                 *)
(***************************************************************************)
\* a faulty variant: a root-relative path counts as external
isExternalUrlSlash(href) ==
  \/ startsWith(href, "http://")
  \/ startsWith(href, "https://")
  \/ startsWith(href, "/")

isExternalUrl(href) ==
  \/ startsWith(href, "http://")
  \/ startsWith(href, "https://")
  \/ startsWith(href, "//")

\* a faulty variant: the line is the line on which the tag ends
LinkMatchLineAtEnd(htmlContent, k, g) ==
  LET linkTag == SubSeq(htmlContent, k, g)
      startIndex == k - 1
  IN  [tag |-> linkTag,
       href |-> AttrValue(linkTag, "href"),
       rel |-> AttrValue(linkTag, "rel"),
       lineNumber |-> CountChar(SubSeq(htmlContent, 1, g), "\n") + 1,
       startIndex |-> startIndex,
       endIndex |-> startIndex + Len(linkTag)]

\* one element of matches: the tag found at positions k..g of htmlContent
LinkMatch(htmlContent, k, g) ==
  LET linkTag == SubSeq(htmlContent, k, g)
      startIndex == k - 1
  IN  [tag |-> linkTag,
       href |-> AttrValue(linkTag, "href"),
       rel |-> AttrValue(linkTag, "rel"),
       lineNumber |-> CountChar(SubSeq(htmlContent, 1, startIndex), "\n") + 1,
       startIndex |-> startIndex,
       endIndex |-> startIndex + Len(linkTag)]

\* the while loop over linkRegex.exec, from the 1-based position lastIndex + 1
RECURSIVE ExecFrom(_, _)
ExecFrom(htmlContent, from) ==
  LET hits == {k \in from..Len(htmlContent) : LinkAt(htmlContent, k) # 0}
  IN  IF hits = {} THEN <<>>
      ELSE LET k == Least(hits)
               g == LinkAt(htmlContent, k)
           IN  <<LinkMatch(htmlContent, k, g)>> \o ExecFrom(htmlContent, g + 1)

findTargetBlankLinks(htmlContent) == ExecFrom(htmlContent, 1)

\* a faulty variant: one of the two tokens is enough
hasSecureRelEither(rel) ==
  IF rel = NULL THEN FALSE
  ELSE LET relValues == splitSpace(toLowerCase(rel))
       IN  includes(relValues, "noopener") \/ includes(relValues, "noreferrer")

hasSecureRel(rel) ==
  IF rel = NULL THEN FALSE
  ELSE LET relValues == splitSpace(toLowerCase(rel))
       IN  includes(relValues, "noopener") /\ includes(relValues, "noreferrer")

\* a faulty variant: both tokens are appended, missing or not
generateSecureRelTwice(existingRel) ==
  IF existingRel = NULL THEN "noopener noreferrer"
  ELSE join(splitSpace(toLowerCase(existingRel))
              \o <<"noopener", "noreferrer">>)

\* a faulty variant: the existing tokens are dropped
generateSecureRelOnly(existingRel) == "noopener noreferrer"

generateSecureRel(existingRel) ==
  IF existingRel = NULL THEN "noopener noreferrer"
  ELSE LET relValues == splitSpace(toLowerCase(existingRel))
           withOpener == IF includes(relValues, "noopener") THEN relValues
                         ELSE Append(relValues, "noopener")
           newValues == IF includes(withOpener, "noreferrer") THEN withOpener
                        ELSE Append(withOpener, "noreferrer")
       IN  join(newValues)

\* tag.replace(/rel\s*=\s*["'][^"']*["']/i, replacement): the first match is
\* replaced; the replacement holds no '$' in the model
replaceRel(tag, replacement) ==
  LET k == FirstAttr(tag, "rel", 0)
  IN  IF k = 0 THEN tag
      ELSE SubSeq(tag, 1, k - 1) \o replacement
             \o SubSeq(tag, AttrClose(tag, k, "rel", 0) + 1, Len(tag))

\* the newTag of fixLink
newTag(linkInfo) ==
  IF linkInfo.rel # NULL
  THEN replaceRel(linkInfo.tag,
                  "rel=\"" \o generateSecureRel(linkInfo.rel) \o "\"")
  ELSE LET insertPosition == indexOf(linkInfo.tag, "target=\"_blank\"")
                               + Len("target=\"_blank\"")
       IN  Slice(linkInfo.tag, 0, insertPosition)
             \o " rel=\"noopener noreferrer\""
             \o SliceFrom(linkInfo.tag, insertPosition)

\* a faulty variant: the splice drops the character after the tag
fixLinkShort(linkInfo, htmlContent) ==
  IF hasSecureRel(linkInfo.rel) THEN htmlContent
  ELSE Slice(htmlContent, 0, linkInfo.startIndex) \o newTag(linkInfo)
         \o SliceFrom(htmlContent, linkInfo.endIndex + 1)

fixLink(linkInfo, htmlContent) ==
  IF hasSecureRel(linkInfo.rel) THEN htmlContent
  ELSE Slice(htmlContent, 0, linkInfo.startIndex) \o newTag(linkInfo)
         \o SliceFrom(htmlContent, linkInfo.endIndex)

(***************************************************************************)
(* The command line and the files.                                         *)
(***************************************************************************)
\* a faulty variant: every argument that is not a flag is a file
parseArgsAnyFile(a) ==
  [fix |-> includes(a, "--fix"),
   help |-> includes(a, "--help") \/ includes(a, "-h"),
   files |-> SelectSeq(a, LAMBDA arg :
                            /\ arg # "--fix"
                            /\ arg # "--help"
                            /\ arg # "-h")]

\* a faulty variant: a help flag counts only as the first argument
parseArgsHelpFirst(a) ==
  [fix |-> includes(a, "--fix"),
   help |-> Len(a) > 0 /\ a[1] \in {"--help", "-h"},
   files |-> SelectSeq(a, LAMBDA arg :
                            /\ arg # "--fix"
                            /\ arg # "--help"
                            /\ arg # "-h"
                            /\ endsWith(arg, ".html"))]

parseArgs(a) ==
  [fix |-> includes(a, "--fix"),
   help |-> includes(a, "--help") \/ includes(a, "-h"),
   files |-> SelectSeq(a, LAMBDA arg :
                            /\ arg # "--fix"
                            /\ arg # "--help"
                            /\ arg # "-h"
                            /\ endsWith(arg, ".html"))]

\* the order of the characters of file names, by code unit
CodeOrder == "-.0123456789ABCDEFGHIJKLMNOPQRSTUVWXYZ_abcdefghijklmnopqrstuvwxyz"

CharCode(c) == Least({k \in 1..Len(CodeOrder) : SubSeq(CodeOrder, k, k) = c})

\* the default comparison of Array.prototype.sort: a sorts before b
RECURSIVE StrLess(_, _)
StrLess(a, b) ==
  IF Len(b) = 0 THEN FALSE
  ELSE IF Len(a) = 0 THEN TRUE
  ELSE IF Ch(a, 1) = Ch(b, 1)
       THEN StrLess(SubSeq(a, 2, Len(a)), SubSeq(b, 2, Len(b)))
       ELSE CharCode(Ch(a, 1)) < CharCode(Ch(b, 1))

\* a faulty variant: the names stay in the order of the listing
findHtmlFilesUnsorted(listing) ==
  SelectSeq(listing, LAMBDA file : endsWith(file, ".html"))

\* findHtmlFiles over one directory listing
findHtmlFiles(listing) ==
  SortSeq(SelectSeq(listing, LAMBDA file : endsWith(file, ".html")), StrLess)

\* the names in the working directory
FileNames == {"a.html", "b.html", "notes.txt"}

\* fs.readdirSync('.') returns the names in an order of the file system's
DirListings ==
  {l \in [1..Cardinality(FileNames) -> FileNames] :
     \A x, y \in DOMAIN l : x # y => l[x] # l[y]}

\* the command lines the tool is started with
ArgVectors ==
  { <<>>,
    <<"--fix">>,
    <<"a.html", "notes.txt">>,
    <<"--fix", "b.html", "a.html">>,
    <<"--help">>,
    <<"a.html", "--fix", "-h">> }

\* readdirSync is called only when no file is named on the command line
ListingsFor(a) ==
  IF ~parseArgs(a).help /\ Len(parseArgs(a).files) = 0 THEN DirListings
  ELSE {<<>>}

(***************************************************************************)
(* The documents.  A tag of the library is an opening tag that linkRegex   *)
(* matches; a page is a fixed frame around a sequence of such tags.        *)
(***************************************************************************)
TagLib ==
  { "<a href=\"https://e.co\" target=\"_blank\">",
    "<a href=\"//e\" target=\"_blank\" rel='nofollow NoOpener'>",
    "<A REL=\"NoReferrer  nofollow NOOPENER\"\n HREF = 'http://e' TARGET = \"_Blank\">",
    "<a href=\"#s\" target=\"_blank\">",
    "<a target=\"_blank\" rel=\"nofollow\" href=\"/a\">",
    "<a target=\"_blank\" rel=\"noopener noreferrer\">",
    "<a href=\"https://e.co\" target='_blank'>",
    "<a id=xy rel=\"\" target='_blank' href=\"//e\">" }

RECURSIVE PageBody(_)
PageBody(tags) ==
  IF Len(tags) = 0 THEN ""
  ELSE "\n" \o Head(tags) \o "x</a>" \o PageBody(Tail(tags))

Page(tags) == "<a href='//n'>n</a>" \o PageBody(tags) \o "\n<p>"

\* what a.html can hold when the first run starts
Docs == {Page(tags) : tags \in UNION {[1..n -> TagLib] : n \in 0..MaxTags}}

\* what b.html holds when the first run starts
OtherDoc == Page(<<"<a href=\"http://e\" target=\"_blank\" rel=\"NOOPENER\">">>)

NotesText == "<a href=\"//e\" target=\"_blank\">"

\* tags and near-tags in the shapes that linkRegex and the attribute
\* patterns have to tell apart
ScanLib ==
  { "<a href=\"//e\" target=\"_blank\" rel=\"nofollow  NOFOLLOW\">",
    "<a href=\"//e\" rel=\" me noreferrer\" target=\"_blank\">",
    "<a href=\"//e\" TARGET = '_Blank'>",
    "<area href=\"//e\" target=\"_blank\">",
    "<a href=\"//e\" data-target=\"_blank\">",
    "<a data-href=\"//e\" href=\"#s\" target=\"_blank\">",
    "<a href=\"//e\" data-rel=\"noopener noreferrer\" target=\"_blank\">",
    "<a href=\"//e\" target=\"_self\">",
    "<a\nhref=\"https://e.co\" target=\"_blank\">" }

\* what a.html can hold when the first run of the scan study starts
ScanDocs == {Page(<<tag>>) : tag \in ScanLib}

(***************************************************************************)
(* The web site (script.js and js/modules): every module is a record of    *)
(* its fields and of the attributes of the elements it drives, and every   *)
(* method and listener is an operator from the record before the call to   *)
(* the record after it.                                                    *)
(***************************************************************************)
\* Navigation.openMobileMenu
openMobileMenu(n) ==
  [n EXCEPT !.hidden = FALSE, !.ariaExpanded = "true", !.isMenuOpen = TRUE,
            !.focus = "menuItem"]

\* Navigation.closeMobileMenu
closeMobileMenu(n) ==
  [n EXCEPT !.hidden = TRUE, !.ariaExpanded = "false", !.isMenuOpen = FALSE,
            !.focus = "menuBtn"]

\* Navigation.toggleMobileMenu
toggleMobileMenu(n) ==
  IF n.isMenuOpen THEN closeMobileMenu(n) ELSE openMobileMenu(n)

\* Navigation.closeMenu
closeMenu(n) == IF n.isMenuOpen THEN closeMobileMenu(n) ELSE n

\* the places of the page where a click or a key press can land
Cards == <<"therapy", "diagnostics", "counselling">>

CardSet == {Cards[k] : k \in DOMAIN Cards}

Targets == {"menuBtn", "menuPanel", "menuItem", "field", "body"} \cup CardSet

\* a faulty variant: the listener closes the menu for a click on the button
NavDocumentClickAnywhere(n, target) ==
  IF n.isMenuOpen /\ target \notin {"menuPanel", "menuItem"}
  THEN closeMobileMenu(n) ELSE n

\* Navigation: the click listener of the document
NavDocumentClick(n, target) ==
  IF /\ n.isMenuOpen
     /\ target \notin {"menuPanel", "menuItem"}
     /\ target # "menuBtn"
  THEN closeMobileMenu(n) ELSE n

\* Navigation: the click listeners of the button and of the menu items,
\* which run before the listener of the document
NavTargetClick(n, target) ==
  IF target = "menuBtn" THEN toggleMobileMenu(n)
  ELSE IF target = "menuItem" THEN closeMobileMenu(n)
  ELSE n

\* Navigation: the keydown listener of the document
NavDocumentKeydown(n, key) ==
  IF key = "Escape" /\ n.isMenuOpen THEN closeMobileMenu(n) ELSE n

\* FlipCards.unflipCard; the announcement for screen readers is removed
\* after a second and leaves nothing behind
unflipCard(f, card) ==
  [flipped |-> f.flipped \ {card},
   pressed |-> f.pressed \ {card},
   activeCard |-> IF f.activeCard = card THEN "null" ELSE f.activeCard]

\* this.cards.forEach from the k-th card on: every card of which that is
\* flipped is unflipped
RECURSIVE UnflipIn(_, _, _)
UnflipIn(f, k, which) ==
  IF k > Len(Cards) THEN f
  ELSE UnflipIn(IF Cards[k] \in which /\ Cards[k] \in f.flipped
                THEN unflipCard(f, Cards[k]) ELSE f,
                k + 1, which)

\* a faulty variant: the other cards stay as they are
flipCardOnly(f, card) ==
  [flipped |-> f.flipped \cup {card},
   pressed |-> f.pressed \cup {card},
   activeCard |-> card]

\* FlipCards.flipCard
flipCard(f, card) ==
  LET closed == UnflipIn(f, 1, CardSet \ {card})
  IN  [flipped |-> closed.flipped \cup {card},
       pressed |-> closed.pressed \cup {card},
       activeCard |-> card]

\* FlipCards.flipCardByService: the data-service of a card is its name
flipCardByService(f, serviceType) ==
  IF serviceType \in CardSet THEN flipCard(f, serviceType) ELSE f

\* FlipCards.unflipAllCards
unflipAllCards(f) == UnflipIn(f, 1, CardSet)

\* FlipCards: the click listener of a card, which runs before the listeners
\* of the document
FlipTargetClick(f, target) ==
  IF target \in CardSet THEN flipCard(f, target) ELSE f

\* FlipCards: the click listeners of the document, one for every card
FlipDocumentClick(f, target) ==
  UnflipIn(f, 1, CardSet \ {target})

\* FlipCards: the keydown listener of a card
FlipTargetKeydown(f, key, target) ==
  IF target \in CardSet /\ key \in {"Enter", " "} THEN flipCard(f, target)
  ELSE f

\* FlipCards: the keydown listeners of the document, one for every card
FlipDocumentKeydown(f, key) ==
  IF key = "Escape" THEN UnflipIn(f, 1, CardSet) ELSE f

\* ContactForm.findFields
FormFields == {"name", "phone", "email", "message"}

\* the fields whose value passes validateField when the form is empty: the
\* phone number is the one field that is not required
DefaultOk == {"phone"}

\* ContactForm.validateField: okValues holds the fields whose value passes
\* the tests, errors the fields that carry the class error
validateField(fm, field) ==
  [fm EXCEPT !.errors = IF field \in fm.okValues THEN @ \ {field}
                        ELSE @ \cup {field}]

\* ContactForm.clearFieldError
clearFieldError(fm, field) == [fm EXCEPT !.errors = @ \ {field}]

\* ContactForm.validateForm: every field is validated
validateForm(fm) == [fm EXCEPT !.errors = FormFields \ fm.okValues]

\* ContactForm.resetForm
resetForm(fm) == [fm EXCEPT !.okValues = DefaultOk, !.errors = {}]

\* a faulty variant: a submission starts while another one is pending
handleSubmitAgain(fm) ==
  IF validateForm(fm).errors # {}
  THEN [validateForm(fm) EXCEPT !.message = "error"]
  ELSE [validateForm(fm) EXCEPT !.isSubmitting = TRUE, !.disabled = TRUE,
                                !.pending = @ + 1]

\* ContactForm.handleSubmit up to the await; pending counts the promises
\* of submitForm that have not settled
handleSubmit(fm) ==
  IF fm.isSubmitting THEN fm
  ELSE IF validateForm(fm).errors # {}
  THEN [validateForm(fm) EXCEPT !.message = "error"]
  ELSE [validateForm(fm) EXCEPT !.isSubmitting = TRUE, !.disabled = TRUE,
                                !.pending = @ + 1]

\* ContactForm.handleSubmit after the await: try or catch, then finally
AfterSubmit(fm, ok) ==
  [(IF ok THEN resetForm(fm) ELSE fm)
     EXCEPT !.message = IF ok THEN "success" ELSE "error",
            !.isSubmitting = FALSE,
            !.disabled = FALSE,
            !.pending = @ - 1]

\* the names that the callers of ThemeManager use
ThemeNames == {"default", "dark", "light"}

\* the elements of a sequence
Elements(seq) == {seq[k] : k \in DOMAIN seq}

\* ThemeManager.applyTheme: bodyClasses holds the names x of the classes
\* theme-x of document.body
applyTheme(t) ==
  [t EXCEPT !.bodyClasses = (@ \ Elements(t.availableThemes))
                              \cup {t.currentTheme},
            !.dataTheme = t.currentTheme]

\* ThemeManager.setTheme
setTheme(t, theme) ==
  IF ~includes(t.availableThemes, theme) THEN t
  ELSE applyTheme([t EXCEPT !.currentTheme = theme, !.saved = theme])

\* ThemeManager.addTheme
addTheme(t, themeName) ==
  IF ~includes(t.availableThemes, themeName)
  THEN [t EXCEPT !.availableThemes = Append(@, themeName)]
  ELSE t

\* ThemeManager.removeTheme
removeTheme(t, themeName) ==
  IF includes(t.availableThemes, themeName) /\ themeName # "default"
  THEN LET spliced ==
             [t EXCEPT !.availableThemes =
                         SelectSeq(@, LAMBDA theme : theme # themeName)]
       IN  IF spliced.currentTheme = themeName
           THEN setTheme(spliced, "default")
           ELSE spliced
  ELSE t

\* ScrollSpy: this.scrollOffset
scrollOffset == 100

\* the section elements of the page, with offsetTop and offsetHeight
Sections ==
  << [id |-> "home", offsetTop |-> 0, offsetHeight |-> 600],
     [id |-> "about", offsetTop |-> 600, offsetHeight |-> 600],
     [id |-> "contact", offsetTop |-> 1200, offsetHeight |-> 600] >>

\* the navigation links of the page: two for every section but the last
NavLinks == <<"#home", "#about", "#home", "#about">>

\* the values of window.pageYOffset that the user scrolls to
ScrollPositions == {0, 450, 550, 1150, 1800}

\* the forEach of updateActiveSection from the k-th section on
RECURSIVE ActiveFrom(_, _, _)
ActiveFrom(scrollPosition, k, newActiveSection) ==
  IF k > Len(Sections) THEN newActiveSection
  ELSE ActiveFrom(scrollPosition, k + 1,
                  IF /\ scrollPosition >= Sections[k].offsetTop
                     /\ scrollPosition
                          < Sections[k].offsetTop + Sections[k].offsetHeight
                  THEN Sections[k].id ELSE newActiveSection)

\* ScrollSpy.setActiveSection: activeLink is the link that carries the
\* class active, "" when there is none
setActiveSection(s, sectionId) ==
  [s EXCEPT !.activeLink = IF /\ sectionId # ""
                              /\ includes(NavLinks, "#" \o sectionId)
                           THEN "#" \o sectionId ELSE "",
            !.activeSection = sectionId]

\* ScrollSpy.updateActiveSection
updateActiveSection(s, pageYOffset) ==
  LET newActiveSection == ActiveFrom(pageYOffset + scrollOffset, 1, "")
  IN  IF newActiveSection # s.activeSection
      THEN setActiveSection(s, newActiveSection)
      ELSE s

\* a faulty variant: every scroll event asks for an animation frame
ScrollRequestsFrameAlways(s) == TRUE

\* ScrollSpy: the scroll listener asks for an animation frame only when
\* none is asked for already
ScrollRequestsFrame(s) == ~s.ticking

(***************************************************************************)
(* The state.                                                              *)
(***************************************************************************)
VARIABLES
  disk,            \* the content of every file of the working directory
  pc,              \* where the process is: idle, map, loop, report, exited
  args,            \* process.argv.slice(2) of the current run
  helpShown,       \* showHelp has printed the usage text
  fixMode,         \* this.fixMode
  issues,          \* this.issues
  filesToCheck,    \* run: filesToCheck
  results,         \* run: the results of filesToCheck.map, so far
  htmlContent,     \* checkFile: htmlContent
  links,           \* checkFile: links
  updatedContent,  \* checkFile: updatedContent
  fileIssues,      \* checkFile: fileIssues
  hasChanges,      \* checkFile: hasChanges
  i,               \* checkFile: the loop index, 0-based
  exitCode,        \* the exit status of the process, -1 while it runs
  writes,          \* history: the files written by the current run
  written,         \* history: the files the tool has rewritten, in any run
  nWrites,         \* history: how many times the tool has rewritten a file
  ioLog,           \* history: the file reads and writes of the current run
  dirListed,       \* history: the current run has called fs.readdirSync
  calls,           \* how many times run was called on the checker instance
  lostEdits,       \* history: files of which the tool overwrote a foreign edit
  nav,             \* Navigation: isMenuOpen, the menu, its button, the focus
  flip,            \* FlipCards: activeCard, the classes and aria-pressed
  form,            \* ContactForm: isSubmitting, the button, the message
  theme,           \* ThemeManager: its fields, the classes of document.body
  spy,             \* ScrollSpy: activeSection, the active link, ticking
  win              \* window: pageYOffset, the events and callbacks it owes

tool == <<disk, pc, args, helpShown, fixMode, issues, filesToCheck, results,
          htmlContent, links, updatedContent, fileIssues, hasChanges, i,
          exitCode, writes, written, nWrites, ioLog, dirListed, calls,
          lostEdits>>

site == <<nav, flip, form, theme, spy, win>>

vars == <<tool, site>>

locals == <<htmlContent, links, updatedContent, fileIssues, hasChanges, i>>

history == <<writes, written, nWrites, ioLog, dirListed, calls, lostEdits>>

\* the state when the first process starts, a.html holding one of docs
Start(docs) ==
  /\ \E docA \in docs :
       disk = [f \in FileNames |-> IF f = "a.html" THEN docA
                                   ELSE IF f = "b.html" THEN OtherDoc
                                   ELSE NotesText]
  /\ pc = "idle"
  /\ args = <<>>
  /\ helpShown = FALSE
  /\ fixMode = FALSE
  /\ issues = <<>>
  /\ filesToCheck = <<>>
  /\ results = <<>>
  /\ htmlContent = ""
  /\ links = <<>>
  /\ updatedContent = ""
  /\ fileIssues = <<>>
  /\ hasChanges = FALSE
  /\ i = -1
  /\ exitCode = -1
  /\ writes = <<>>
  /\ written = {}
  /\ nWrites = 0
  /\ ioLog = <<>>
  /\ dirListed = FALSE
  /\ calls = 0
  /\ lostEdits = {}
  /\ nav = [hidden |-> TRUE, ariaExpanded |-> "false", isMenuOpen |-> FALSE,
            focus |-> "body"]
  /\ flip = [flipped |-> {}, pressed |-> {}, activeCard |-> "null"]
  /\ form = [isSubmitting |-> FALSE, disabled |-> FALSE, message |-> "",
             okValues |-> DefaultOk, errors |-> {}, pending |-> 0]
  /\ theme = applyTheme([currentTheme |-> "default",
                         availableThemes |-> <<"default">>,
                         bodyClasses |-> {}, dataTheme |-> "",
                         saved |-> ""])
  /\ spy = updateActiveSection([activeSection |-> "", activeLink |-> "",
                                ticking |-> FALSE], 0)
  /\ win = [pageYOffset |-> 0, scrollDue |-> FALSE, frames |-> 0,
            timer |-> FALSE]

Init == Start(Docs)

InitScan == Start(ScanDocs)

\* the file checkFile is called with, or is about to be called with
filename == filesToCheck[Len(results) + 1]

\* where run goes once one more result is in
AfterResult == IF Len(results) + 1 < Len(filesToCheck) THEN "map" ELSE "report"

ClearLocals ==
  /\ htmlContent' = ""
  /\ links' = <<>>
  /\ updatedContent' = ""
  /\ fileIssues' = <<>>
  /\ hasChanges' = FALSE
  /\ i' = -1

(***************************************************************************)
(* The process: a new ExternalLinksChecker, then run(argv) up to the map.  *)
(***************************************************************************)
\* run(args) up to the map, on a checker whose fields are those of inst
RunCall(a, listing, inst) ==
  /\ pc \in {"idle", "exited"}
  /\ args' = a
  /\ issues' = inst.issues
  /\ results' = <<>>
  /\ writes' = <<>>
  /\ ioLog' = <<>>
  /\ ClearLocals
  /\ LET options == parseArgs(a)
     IN  IF options.help
         THEN /\ helpShown' = TRUE
              /\ fixMode' = inst.fixMode
              /\ filesToCheck' = <<>>
              /\ dirListed' = FALSE
              /\ exitCode' = 0
              /\ pc' = "exited"
         ELSE /\ helpShown' = FALSE
              /\ fixMode' = options.fix
              /\ filesToCheck' = IF Len(options.files) > 0 THEN options.files
                                 ELSE findHtmlFiles(listing)
              /\ dirListed' = (Len(options.files) = 0)
              /\ exitCode' = -1
              /\ pc' = IF Len(filesToCheck') > 0 THEN "map" ELSE "report"
  /\ UNCHANGED <<disk, written, nWrites, lostEdits>>
  /\ UNCHANGED site

\* a process: new ExternalLinksChecker(), then run(process.argv.slice(2))
Run(a, listing) ==
  /\ RunCall(a, listing, [issues |-> <<>>, fixMode |-> FALSE])
  /\ calls' = 1

\* run is called again on the checker of a run that has returned
RunAgain(a, listing) ==
  /\ calls < MaxCalls
  /\ pc = "exited"
  /\ exitCode = 0
  /\ RunCall(a, listing, [issues |-> issues, fixMode |-> fixMode])
  /\ calls' = calls + 1

(***************************************************************************)
(* checkFile, in steps: the read, one step for every turn of the loop, and *)
(* the end (write, push, return) or the catch.                             *)
(***************************************************************************)
CheckFileRead ==
  /\ pc = "map"
  /\ filename \in DOMAIN disk
  /\ htmlContent' = disk[filename]
  /\ links' = findTargetBlankLinks(disk[filename])
  /\ updatedContent' = disk[filename]
  /\ fileIssues' = <<>>
  /\ hasChanges' = FALSE
  /\ i' = Len(links') - 1
  /\ pc' = "loop"
  /\ ioLog' = Append(ioLog, [op |-> "read", file |-> filename])
  /\ UNCHANGED <<disk, args, helpShown, fixMode, issues, filesToCheck,
                 results, exitCode>>
  /\ UNCHANGED <<writes, written, nWrites, dirListed, calls, lostEdits>>
  /\ UNCHANGED site

\* what the catch of checkFile returns
ErrorResult(message) ==
  [filename |-> filename, error |-> message, issues |-> <<>>, fixed |-> FALSE]

\* a faulty variant: the exception of readFileSync leaves checkFile and run
CheckFileReadErrorEscapes ==
  /\ pc = "map"
  /\ pc' = "exited"
  /\ exitCode' = 1
  /\ UNCHANGED <<disk, args, helpShown, fixMode, issues, filesToCheck,
                 results>>
  /\ UNCHANGED locals
  /\ UNCHANGED history
  /\ UNCHANGED site

\* readFileSync throws: the catch returns the error result
CheckFileReadError ==
  /\ pc = "map"
  /\ results' = Append(results, ErrorResult("read"))
  /\ pc' = AfterResult
  /\ ioLog' = Append(ioLog, [op |-> "read", file |-> filename])
  /\ UNCHANGED <<disk, args, helpShown, fixMode, issues, filesToCheck,
                 exitCode>>
  /\ UNCHANGED locals
  /\ UNCHANGED <<writes, written, nWrites, dirListed, calls, lostEdits>>
  /\ UNCHANGED site

\* the issue that checkFile builds for a link
Issue(link) ==
  [file |-> filename,
   line |-> link.lineNumber,
   href |-> link.href,
   currentRel |-> IF link.rel # NULL THEN link.rel ELSE "(none)",
   severity |-> "HIGH",
   status |-> IF fixMode THEN "FIXED" ELSE NULL]

\* the condition of the two ifs around the issue
NeedsFix(link) ==
  /\ link.href # NULL
  /\ isExternalUrl(link.href)
  /\ ~hasSecureRel(link.rel)

\* a faulty variant: every remediation is written to the file at once
CheckFileLoopWriteThrough ==
  /\ pc = "loop"
  /\ i >= 0
  /\ LET link == links[i + 1]
     IN  IF NeedsFix(link)
         THEN /\ fileIssues' = Append(fileIssues, Issue(link))
              /\ IF fixMode
                 THEN /\ updatedContent' = fixLink(link, updatedContent)
                      /\ hasChanges' = TRUE
                      /\ disk' = [disk EXCEPT ![filename] = updatedContent']
                 ELSE UNCHANGED <<updatedContent, hasChanges, disk>>
         ELSE UNCHANGED <<fileIssues, updatedContent, hasChanges, disk>>
  /\ i' = i - 1
  /\ UNCHANGED <<pc, args, helpShown, fixMode, issues, filesToCheck,
                 results, htmlContent, links, exitCode>>
  /\ UNCHANGED history
  /\ UNCHANGED site

\* a faulty variant: the loop goes through the links from the first to the
\* last
CheckFileLoopForward ==
  /\ pc = "loop"
  /\ i >= 0
  /\ LET link == links[Len(links) - i]
     IN  IF NeedsFix(link)
         THEN /\ fileIssues' = Append(fileIssues, Issue(link))
              /\ IF fixMode
                 THEN /\ updatedContent' = fixLink(link, updatedContent)
                      /\ hasChanges' = TRUE
                 ELSE UNCHANGED <<updatedContent, hasChanges>>
         ELSE UNCHANGED <<fileIssues, updatedContent, hasChanges>>
  /\ i' = i - 1
  /\ UNCHANGED <<disk, pc, args, helpShown, fixMode, issues, filesToCheck,
                 results, htmlContent, links, exitCode>>
  /\ UNCHANGED history
  /\ UNCHANGED site

CheckFileLoop ==
  /\ pc = "loop"
  /\ i >= 0
  /\ LET link == links[i + 1]
     IN  IF NeedsFix(link)
         THEN /\ fileIssues' = Append(fileIssues, Issue(link))
              /\ IF fixMode
                 THEN /\ updatedContent' = fixLink(link, updatedContent)
                      /\ hasChanges' = TRUE
                 ELSE UNCHANGED <<updatedContent, hasChanges>>
         ELSE UNCHANGED <<fileIssues, updatedContent, hasChanges>>
  /\ i' = i - 1
  /\ UNCHANGED <<disk, pc, args, helpShown, fixMode, issues, filesToCheck,
                 results, htmlContent, links, exitCode>>
  /\ UNCHANGED history
  /\ UNCHANGED site

\* a faulty variant: fix mode writes every file back
ShouldWriteAlways == fixMode

\* the condition of the write
ShouldWrite == fixMode /\ hasChanges

\* a faulty variant: the issues of the document go to the front of the list
CheckFileEndUnshift ==
  /\ pc = "loop"
  /\ i < 0
  /\ IF ShouldWrite
     THEN /\ nWrites < MaxWrites
          /\ disk' = [disk EXCEPT ![filename] = updatedContent]
          /\ writes' = Append(writes, filename)
          /\ written' = written \cup {filename}
          /\ nWrites' = nWrites + 1
          /\ ioLog' = Append(ioLog, [op |-> "write", file |-> filename])
          /\ lostEdits' = IF disk[filename] # htmlContent
                          THEN lostEdits \cup {filename} ELSE lostEdits
     ELSE UNCHANGED <<disk, writes, written, nWrites, ioLog, lostEdits>>
  /\ issues' = fileIssues \o issues
  /\ results' = Append(results, [filename |-> filename, error |-> NULL,
                                 issues |-> fileIssues,
                                 fixed |-> fixMode /\ hasChanges])
  /\ pc' = AfterResult
  /\ ClearLocals
  /\ UNCHANGED <<args, helpShown, fixMode, filesToCheck, exitCode, dirListed,
                 calls>>
  /\ UNCHANGED site

\* a faulty variant: the write is left out when the file is no longer what
\* was read
CheckFileEndGuarded ==
  /\ pc = "loop"
  /\ i < 0
  /\ IF ShouldWrite /\ disk[filename] = htmlContent
     THEN /\ nWrites < MaxWrites
          /\ disk' = [disk EXCEPT ![filename] = updatedContent]
          /\ writes' = Append(writes, filename)
          /\ written' = written \cup {filename}
          /\ nWrites' = nWrites + 1
          /\ ioLog' = Append(ioLog, [op |-> "write", file |-> filename])
          /\ lostEdits' = IF disk[filename] # htmlContent
                          THEN lostEdits \cup {filename} ELSE lostEdits
     ELSE UNCHANGED <<disk, writes, written, nWrites, ioLog, lostEdits>>
  /\ issues' = issues \o fileIssues
  /\ results' = Append(results, [filename |-> filename, error |-> NULL,
                                 issues |-> fileIssues,
                                 fixed |-> fixMode /\ hasChanges])
  /\ pc' = AfterResult
  /\ ClearLocals
  /\ UNCHANGED <<args, helpShown, fixMode, filesToCheck, exitCode, dirListed,
                 calls>>
  /\ UNCHANGED site

\* after the loop: the write when there is one, the push and the return
CheckFileEnd ==
  /\ pc = "loop"
  /\ i < 0
  /\ IF ShouldWrite
     THEN /\ nWrites < MaxWrites
          /\ disk' = [disk EXCEPT ![filename] = updatedContent]
          /\ writes' = Append(writes, filename)
          /\ written' = written \cup {filename}
          /\ nWrites' = nWrites + 1
          /\ ioLog' = Append(ioLog, [op |-> "write", file |-> filename])
          /\ lostEdits' = IF disk[filename] # htmlContent
                          THEN lostEdits \cup {filename} ELSE lostEdits
     ELSE UNCHANGED <<disk, writes, written, nWrites, ioLog, lostEdits>>
  /\ issues' = issues \o fileIssues
  /\ results' = Append(results, [filename |-> filename, error |-> NULL,
                                 issues |-> fileIssues,
                                 fixed |-> fixMode /\ hasChanges])
  /\ pc' = AfterResult
  /\ ClearLocals
  /\ UNCHANGED <<args, helpShown, fixMode, filesToCheck, exitCode, dirListed,
                 calls>>
  /\ UNCHANGED site

\* writeFileSync throws: the catch returns the error result
CheckFileWriteError ==
  /\ pc = "loop"
  /\ i < 0
  /\ ShouldWrite
  /\ results' = Append(results, ErrorResult("write"))
  /\ pc' = AfterResult
  /\ ClearLocals
  /\ ioLog' = Append(ioLog, [op |-> "write", file |-> filename])
  /\ UNCHANGED <<disk, args, helpShown, fixMode, issues, filesToCheck,
                 exitCode>>
  /\ UNCHANGED <<writes, written, nWrites, dirListed, calls, lostEdits>>
  /\ UNCHANGED site

(***************************************************************************)
(* The end of run: the summary, generateReport and the exit status.        *)
(***************************************************************************)
\* the issues generateReport lists
highIssues == SelectSeq(issues, LAMBDA issue : issue.severity = "HIGH")

\* what generateReport returns
allClear == Len(highIssues) = 0

\* the status line generateReport prints for an issue
StatusLine(issue) == IF issue.status # NULL THEN issue.status ELSE "NEEDS FIX"

\* the line of the per-file summary for a result
SummaryLine(result) ==
  IF result.error # NULL THEN "Error"
  ELSE IF Len(result.issues) = 0 THEN "No issues found"
  ELSE IF result.fixed THEN "Fixed" ELSE "Found"

\* a faulty variant: the exit status ignores the fix flag
ExitStatusAny == IF ~allClear THEN 1 ELSE 0

\* process.exit(1), or the end of run
ExitStatus == IF ~allClear /\ ~fixMode THEN 1 ELSE 0

RunExit ==
  /\ pc = "report"
  /\ exitCode' = ExitStatus
  /\ pc' = "exited"
  /\ UNCHANGED <<disk, args, helpShown, fixMode, issues, filesToCheck,
                 results>>
  /\ UNCHANGED locals
  /\ UNCHANGED history
  /\ UNCHANGED site

Next ==
  \/ \E a \in ArgVectors : \E listing \in ListingsFor(a) : Run(a, listing)
  \/ CheckFileRead
  \/ CheckFileReadError
  \/ CheckFileLoop
  \/ CheckFileEnd
  \/ CheckFileWriteError
  \/ RunExit

Spec == Init /\ [][Next]_vars

\* the same process over the documents of ScanDocs
SpecScan == InitScan /\ [][Next]_vars

\* a checker instance that a caller of the module uses for several runs
NextReuse ==
  \/ Next
  \/ \E a \in ArgVectors : \E listing \in ListingsFor(a) : RunAgain(a, listing)

SpecReuse == InitScan /\ [][NextReuse]_vars

\* command lines that name a file which is not an .html file
StrayArgVectors == { <<"notes.txt">>, <<"--fix", "notes.txt">> }

\* the process, started with these command lines too
NextStray ==
  \/ Next
  \/ \E a \in StrayArgVectors : \E listing \in ListingsFor(a) : Run(a, listing)

SpecStray == InitScan /\ [][NextStray]_vars

\* what another program leaves in a document that it edits
ForeignDoc == Page(<<"<a href=\"https://e.co/new\" target=\"_blank\">">>)

\* another process writes the document while checkFile is between its read
\* and its write
ExternalWrite ==
  /\ pc = "loop"
  /\ disk[filename] # ForeignDoc
  /\ disk' = [disk EXCEPT ![filename] = ForeignDoc]
  /\ UNCHANGED <<pc, args, helpShown, fixMode, issues, filesToCheck, results,
                 exitCode>>
  /\ UNCHANGED locals
  /\ UNCHANGED history
  /\ UNCHANGED site

\* the process, with another writer of the documents at work
NextExternal ==
  \/ Next
  \/ ExternalWrite

SpecExternal == InitScan /\ [][NextExternal]_vars

(***************************************************************************)
(* The vocabulary of the properties, written without the checker's own     *)
(* methods.                                                                *)
(***************************************************************************)
\* s, lower-cased, holds tok as a whole word between white space
ContainsToken(s, tok) ==
  LET l == toLowerCase(s)
  IN  \E k \in 1..(Len(l) - Len(tok) + 1) :
        /\ SubSeq(l, k, k + Len(tok) - 1) = tok
        /\ k = 1 \/ IsSpace(Ch(l, k - 1))
        /\ k + Len(tok) > Len(l) \/ IsSpace(Ch(l, k + Len(tok)))

HasBothTokens(rel) ==
  ContainsToken(rel, "noopener") /\ ContainsToken(rel, "noreferrer")

\* the href starts with http://, https:// or //
ExternalHref(href) ==
  \E prefix \in {"http://", "https://", "//"} :
    Len(href) >= Len(prefix) /\ SubSeq(href, 1, Len(prefix)) = prefix

\* the href is absent, fragment-only or a root-relative path
OutOfScopeHref(href) ==
  \/ href = NULL
  \/ Ch(href, 1) = "#"
  \/ Ch(href, 1) = "/" /\ Ch(href, 2) # "/"

\* an external target=_blank link without both tokens
Violating(link) ==
  /\ link.href # NULL
  /\ ExternalHref(link.href)
  /\ ~HasBothTokens(link.rel)

\* checkFile is past the read and has not returned
InCheckFile == pc = "loop"

\* the loop of checkFile has ended and checkFile has not returned
LoopDone == pc = "loop" /\ i < 0

\* the violating links among links[k..], the last one first
RECURSIVE ViolatingFrom(_)
ViolatingFrom(k) ==
  IF k > Len(links) THEN <<>>
  ELSE ViolatingFrom(k + 1)
         \o (IF Violating(links[k]) THEN <<links[k]>> ELSE <<>>)

\* text with every violating link of ls[k..] replaced by its corrected tag,
\* read from the 0-based offset pos on
RECURSIVE Spliced(_, _, _, _)
Spliced(text, ls, k, pos) ==
  IF k > Len(ls) THEN SliceFrom(text, pos)
  ELSE Slice(text, pos, ls[k].startIndex)
         \o (IF Violating(ls[k]) THEN newTag(ls[k]) ELSE ls[k].tag)
         \o Spliced(text, ls, k + 1, ls[k].endIndex)

\* the violating links of a text, as the tool would find them
ViolationsIn(text) ==
  LET found == findTargetBlankLinks(text)
  IN  {k \in DOMAIN found : Violating(found[k])}

(***************************************************************************)
(* The properties.                                                         *)
(***************************************************************************)
\* C1: for the matched tags with an external href that checkFile has gone
\* through, the issues are exactly those of the tags whose rel does not hold
\* both noopener and noreferrer (lower-cased, split on white space): one
\* issue for each such tag, in the order of the loop, and none for a tag
\* whose rel holds both.
C1_IssueIffNotBothTokens ==
  InCheckFile =>
    LET expected == ViolatingFrom(i + 2)
    IN  /\ Len(fileIssues) = Len(expected)
        /\ \A j \in 1..Len(expected) :
             /\ fileIssues[j].line = expected[j].lineNumber
             /\ fileIssues[j].href = expected[j].href

C1_Witness ==
  /\ LoopDone
  /\ Len(fileIssues) = 1
  /\ \E k \in DOMAIN links :
       /\ ExternalHref(links[k].href)
       /\ HasBothTokens(links[k].rel)
  /\ \E k \in DOMAIN links :
       /\ ExternalHref(links[k].href)
       /\ ContainsToken(links[k].rel, "noopener")
       /\ ~ContainsToken(links[k].rel, "noreferrer")

\* C2: the turn of the loop for a matched tag whose href is absent,
\* fragment-only or relative adds no issue and changes nothing of the working
\* copy, in report-only mode and in fix mode, whatever the rel of the tag.
C2_OutOfScopeUntouched ==
  [][(pc = "loop" /\ i >= 0 /\ OutOfScopeHref(links[i + 1].href))
       => /\ fileIssues' = fileIssues
          /\ updatedContent' = updatedContent
          /\ hasChanges' = hasChanges
          /\ disk' = disk]_vars

C2_Witness ==
  /\ InCheckFile
  /\ fixMode
  /\ fileIssues = <<>>
  /\ \E k \in (i + 2)..Len(links) :
       /\ links[k].href # NULL
       /\ OutOfScopeHref(links[k].href)
       /\ links[k].rel # NULL
       /\ ~HasBothTokens(links[k].rel)

\* C3 (as claimed): checkFile in fix mode on a file that an earlier fix-mode
\* run wrote finds no issue and changes nothing.
C3_FixIdempotent ==
  (InCheckFile /\ fixMode /\ filename \in written)
    => /\ fileIssues = <<>>
       /\ ~hasChanges
       /\ updatedContent = htmlContent

\* C4 (as claimed): at the end of a fix-mode pass, the text to be written
\* holds as many target=_blank links as the text read, and every link that
\* was violating has kept its href and has a rel with both tokens.
C4_AllViolationsFixed ==
  (LoopDone /\ fixMode) =>
    LET after == findTargetBlankLinks(updatedContent)
    IN  /\ Len(after) = Len(links)
        /\ \A k \in DOMAIN links :
             Violating(links[k]) =>
               /\ after[k].href = links[k].href
               /\ HasBothTokens(after[k].rel)

\* C5: at the end of the loop the working copy is the text read with the
\* tag of every violating link replaced, at its offsets, by its corrected tag
\* (in fix mode) and with everything else as it was: the text between the
\* tags and the tags that are skipped or compliant.
C5_OnlyViolatingRangesChange ==
  LoopDone =>
    updatedContent = IF fixMode THEN Spliced(htmlContent, links, 1, 0)
                     ELSE htmlContent

C5_Witness ==
  /\ LoopDone
  /\ fixMode
  /\ Len(links) = 2
  /\ Violating(links[1])
  /\ Violating(links[2])
  /\ Len(newTag(links[1])) # Len(links[1].tag)
  /\ updatedContent # htmlContent

\* C6: a step that writes a file is the end of checkFile in fix mode for a
\* document with at least one violating link, and writes that document only.
C6_WriteOnlyFixModeWithViolation ==
  [][(disk' # disk \/ nWrites' # nWrites)
       => /\ fixMode
          /\ LoopDone
          /\ \E k \in DOMAIN links : Violating(links[k])
          /\ \A f \in FileNames : disk'[f] # disk[f] => f = filename]_vars

C6_Witness ==
  /\ pc = "exited"
  /\ fixMode
  /\ Len(results) = 2
  /\ Len(writes) = 1
  /\ \E k \in DOMAIN results :
       results[k].error = NULL /\ Len(results[k].issues) = 0

\* C7: when run has ended, the exit status is 1 if fix mode is off and some
\* audited document had an issue, and 0 in every other case.
C7_ExitStatus ==
  pc = "exited" =>
    exitCode = IF ~fixMode /\ \E k \in DOMAIN results : Len(results[k].issues) > 0
               THEN 1 ELSE 0

C7_Witness ==
  /\ pc = "exited"
  /\ exitCode = 1
  /\ Len(results) = 2

\* C8 (as claimed): when a run has ended with exit status 0, no document
\* handed to it holds, on disk, a violating link.
C8_ExitZeroMeansSecure ==
  (pc = "exited" /\ exitCode = 0) =>
    \A k \in DOMAIN filesToCheck : ViolationsIn(disk[filesToCheck[k]]) = {}

\* C9: a result with an error has no issues; the aggregate issue list is the
\* concatenation of the issues of the results, so an error adds nothing to
\* it; a run that ends has one result for every document, in order, whatever
\* failed; and the all-clear decision counts issues only.
RECURSIVE IssuesOf(_, _)
IssuesOf(rs, k) == IF k > Len(rs) THEN <<>> ELSE rs[k].issues \o IssuesOf(rs, k + 1)

C9_ErrorsIsolated ==
  /\ \A k \in DOMAIN results : results[k].error # NULL => results[k].issues = <<>>
  /\ pc \in {"map", "report", "exited"} => issues = IssuesOf(results, 1)
  /\ pc \in {"report", "exited"} =>
       /\ Len(results) = Len(filesToCheck)
       /\ \A k \in DOMAIN results : results[k].filename = filesToCheck[k]
  /\ pc = "report" => (allClear <=> \A k \in DOMAIN results : results[k].issues = <<>>)
  /\ pc = "exited" => (helpShown \/ exitCode \in {0, 1})

C9_Witness ==
  /\ pc = "exited"
  /\ Len(results) = 2
  /\ results[1].error = "read"
  /\ results[2].error = NULL
  /\ Len(results[2].issues) = 1
  /\ Len(issues) = 1

\* C10 (as claimed): when a run has ended in which the write-back of a
\* document failed, the summary line of the document is the error line and
\* the report has listed the violations of the document, with the status
\* NEEDS FIX.
C10_WriteFailureReported ==
  pc = "exited" =>
    \A k \in DOMAIN results :
      results[k].error = "write" =>
        /\ SummaryLine(results[k]) = "Error"
        /\ \E j \in DOMAIN highIssues :
             /\ highIssues[j].file = results[k].filename
             /\ StatusLine(highIssues[j]) = "NEEDS FIX"

\* the rel value that the remediation of a tag with the rel value rel is to
\* write: the tokens of rel, lower-cased, in their order, then noopener if it
\* is missing, then noreferrer if it is missing
ExpectedRel(rel) ==
  join(splitSpace(toLowerCase(rel))
         \o (IF ContainsToken(rel, "noopener") THEN <<>> ELSE <<"noopener">>)
         \o (IF ContainsToken(rel, "noreferrer") THEN <<>>
             ELSE <<"noreferrer">>))

\* C11: at the end of a fix-mode pass, the tag of every violating link that
\* had a rel is still found, and its rel is the white-space-separated tokens
\* of the original value, lower-cased and in their order, followed by
\* noopener if it was missing and then by noreferrer if it was missing; no
\* original token is dropped and the new value satisfies hasSecureRel.
C11_RelTokensKept ==
  (LoopDone /\ fixMode) =>
    LET after == findTargetBlankLinks(updatedContent)
    IN  \A k \in DOMAIN links :
          (Violating(links[k]) /\ links[k].rel # NULL) =>
            /\ Len(after) = Len(links)
            /\ after[k].rel = ExpectedRel(links[k].rel)
            /\ \A tok \in {"me", "nofollow"} :
                 ContainsToken(links[k].rel, tok)
                   => ContainsToken(after[k].rel, tok)
            /\ hasSecureRel(after[k].rel)
            /\ HasBothTokens(after[k].rel)

C11_Witness ==
  /\ LoopDone
  /\ fixMode
  /\ hasChanges
  /\ \E k \in DOMAIN links :
       /\ Violating(links[k])
       /\ ContainsToken(links[k].rel, "me")
       /\ ContainsToken(links[k].rel, "noreferrer")
       /\ ~ContainsToken(links[k].rel, "noopener")

\* how often tok occurs among the white-space-separated pieces of s
TokenCount(s, tok) ==
  LET pieces == splitSpace(s)
  IN  Cardinality({j \in DOMAIN pieces : pieces[j] = tok})

\* the white-space-separated pieces of s
TokensOf(s) == {splitSpace(s)[j] : j \in DOMAIN splitSpace(s)}

\* C12 (as claimed): at the end of a fix-mode pass, no token occurs more
\* than once in the rel written for a violating link that had a rel, whatever
\* the original rel was.
C12_RelDeduplicated ==
  (LoopDone /\ fixMode) =>
    LET after == findTargetBlankLinks(updatedContent)
    IN  \A k \in DOMAIN links :
          (Violating(links[k]) /\ links[k].rel # NULL) =>
            \A tok \in TokensOf(after[k].rel) :
              TokenCount(after[k].rel, tok) = 1

\* C12 (amended): at the end of a fix-mode pass, the rel written for a
\* violating link that had a rel holds every token as often as the
\* lower-cased original holds it, and noopener and noreferrer once more when
\* the original did not hold them: the remediation adds no token that is
\* already there, and it removes no repetition of the original.
C12_RelAddsOnlyMissing ==
  (LoopDone /\ fixMode) =>
    LET after == findTargetBlankLinks(updatedContent)
    IN  \A k \in DOMAIN links :
          (Violating(links[k]) /\ links[k].rel # NULL) =>
            LET before == toLowerCase(links[k].rel)
            IN  \A tok \in TokensOf(after[k].rel) \cup TokensOf(before) :
                  TokenCount(after[k].rel, tok) =
                    IF /\ tok \in {"noopener", "noreferrer"}
                       /\ TokenCount(before, tok) = 0
                    THEN 1
                    ELSE TokenCount(before, tok)

C12_Witness ==
  /\ LoopDone
  /\ fixMode
  /\ hasChanges
  /\ \E k \in DOMAIN links :
       /\ Violating(links[k])
       /\ TokenCount(toLowerCase(links[k].rel), "nofollow") = 2
       /\ TokenCount(findTargetBlankLinks(updatedContent)[k].rel, "nofollow") = 2

\* an attribute named exactly name starts at position p of tag: the name
\* follows white space and is followed by '=' and a quoted value
ExactAttrAt(tag, p, name) ==
  /\ IsSpace(Ch(tag, p - 1))
  /\ AttrClose(tag, p, name, 0) # 0

\* the value of the first attribute of tag named exactly name, NULL when
\* the tag has no attribute of that name
ExactAttr(tag, name) ==
  LET at == {p \in 1..Len(tag) : ExactAttrAt(tag, p, name)}
  IN  IF at = {} THEN NULL
      ELSE SubSeq(tag, AttrOpen(tag, Least(at), name) + 1,
                  AttrClose(tag, Least(at), name, 0) - 1)

LiteralTarget == "target=\"_blank\""

RelInsert == " rel=\"noopener noreferrer\""

\* the positions of tag at which the literal text lit starts
LiteralAt(tag, lit) ==
  {p \in 1..(Len(tag) - Len(lit) + 1) : SubSeq(tag, p, p + Len(lit) - 1) = lit}

\* the scenario of C13: the only target=_blank tag found is an anchor with
\* an external href, without rel, whose target attribute is written
\* target="_blank"
PlainCase(ls) ==
  /\ Len(ls) = 1
  /\ LET tag == ls[1].tag
     IN  /\ SubSeq(tag, 1, 2) = "<a" /\ IsSpace(Ch(tag, 3))
         /\ ExternalHref(ExactAttr(tag, "href"))
         /\ ls[1].href = ExactAttr(tag, "href")
         /\ ls[1].rel = NULL
         /\ \A p \in 1..Len(tag) : ~MatchCI(tag, p, "rel")
         /\ \E p \in LiteralAt(tag, LiteralTarget) : IsSpace(Ch(tag, p - 1))

\* tag with RelInsert put in right after its first target="_blank"
WithRelInserted(tag) ==
  LET p == Least(LiteralAt(tag, LiteralTarget)) + Len(LiteralTarget)
  IN  SubSeq(tag, 1, p - 1) \o RelInsert \o SubSeq(tag, p, Len(tag))

\* the one issue of the scenario, for the link found in text
PlainIssueIs(issue, link, text) ==
  /\ issue.line = 1 + CountChar(SubSeq(text, 1, link.startIndex), "\n")
  /\ issue.href = ExactAttr(link.tag, "href")
  /\ issue.currentRel = "(none)"

\* C13: for a document whose only target=_blank tag is an external anchor
\* without rel and with the literal attribute target="_blank": checkFile
\* finds exactly one issue, on line 1 + the number of newlines before the
\* tag, with the href of the tag and the current rel '(none)'; in
\* report-only mode it leaves the text and the file as they are and the run
\* exits 1; in fix mode the text to write is the document with
\* ' rel="noopener noreferrer"' inserted right after target="_blank" and
\* nothing else changed, and the run exits 0.
C13_PlainLinkEndToEnd ==
  /\ (LoopDone /\ PlainCase(links)) =>
       /\ Len(fileIssues) = 1
       /\ PlainIssueIs(fileIssues[1], links[1], htmlContent)
       /\ ~fixMode =>
            /\ updatedContent = htmlContent
            /\ ~hasChanges
            /\ disk[filename] = htmlContent
       /\ fixMode =>
            updatedContent =
              SubSeq(htmlContent, 1, links[1].startIndex)
                \o WithRelInserted(links[1].tag)
                \o SubSeq(htmlContent, links[1].endIndex + 1, Len(htmlContent))
  /\ (pc = "exited" /\ ~helpShown) =>
       /\ fixMode => exitCode = 0
       /\ ~fixMode =>
            \A k \in DOMAIN results :
              LET text == disk[results[k].filename]
                  found == findTargetBlankLinks(text)
              IN  (results[k].error = NULL /\ PlainCase(found)) =>
                    /\ Len(results[k].issues) = 1
                    /\ PlainIssueIs(results[k].issues[1], found[1], text)
                    /\ exitCode = 1

\* a fix-mode pass over the scenario's document has reached its end
C13_Witness ==
  /\ LoopDone
  /\ fixMode
  /\ PlainCase(links)
  /\ fileIssues[1].line = 2
  /\ fileIssues[1].currentRel = "(none)"
  /\ Len(updatedContent) = Len(htmlContent) + Len(RelInsert)

\* --help or -h is among the arguments of the current run
HelpGiven == \E k \in DOMAIN args : args[k] \in {"--help", "-h"}

\* C14: a run whose arguments hold --help or -h, at whatever place and
\* whatever else they hold, has printed the usage text and has ended with
\* status 0, without a read or a write of a file, without a directory
\* listing and without a result.
C14_HelpDoesNothing ==
  (pc # "idle" /\ HelpGiven) =>
    /\ helpShown
    /\ pc = "exited"
    /\ exitCode = 0
    /\ ioLog = <<>>
    /\ writes = <<>>
    /\ ~dirListed
    /\ results = <<>>
    /\ issues = <<>>

C14_Witness ==
  /\ pc = "exited"
  /\ helpShown
  /\ \E k \in DOMAIN args : args[k] = "--fix"
  /\ \E k \in DOMAIN args : args[k] = "a.html"
  /\ args[Len(args)] = "-h"
  /\ ViolationsIn(disk["a.html"]) # {}

\* the documents named on the command line, in their order
NamedDocs == SelectSeq(args, LAMBDA arg : endsWith(arg, ".html"))

\* the reads, successful or not, that the current run has made
ReadsSoFar == SelectSeq(ioLog, LAMBDA e : e.op = "read")

\* C15: the documents of a run are those named on the command line, in
\* that order, or else the .html files of the working directory in
\* lexicographic order; they are read one after the other in that order, a
\* write follows at once the read of the same document, so that the read
\* and the write of a document are over before the next document is read;
\* and the results are in the same order.
C15_OneAtATimeInOrder ==
  (pc # "idle" /\ ~helpShown) =>
    /\ IF Len(NamedDocs) > 0 THEN filesToCheck = NamedDocs
       ELSE /\ dirListed
            /\ {filesToCheck[k] : k \in DOMAIN filesToCheck}
                 = {f \in FileNames : endsWith(f, ".html")}
            /\ \A j, k \in DOMAIN filesToCheck :
                 j < k => StrLess(filesToCheck[j], filesToCheck[k])
    /\ Len(ReadsSoFar) = Len(results) + (IF pc = "loop" THEN 1 ELSE 0)
    /\ \A j \in DOMAIN ReadsSoFar : ReadsSoFar[j].file = filesToCheck[j]
    /\ \A j \in DOMAIN ioLog :
         ioLog[j].op = "write" =>
           /\ j > 1
           /\ ioLog[j - 1] = [op |-> "read", file |-> ioLog[j].file]
    /\ \A k \in DOMAIN results : results[k].filename = filesToCheck[k]
    /\ pc \in {"report", "exited"} => Len(results) = Len(filesToCheck)

C15_Witness ==
  /\ pc = "exited"
  /\ dirListed
  /\ ioLog = << [op |-> "read", file |-> "a.html"],
                [op |-> "write", file |-> "a.html"],
                [op |-> "read", file |-> "b.html"],
                [op |-> "write", file |-> "b.html"] >>

\* C16 (as claimed): in every run, also a later run on the same checker
\* instance, the issues that the run holds and reports are those of the
\* documents audited in that run, and its exit status is 1 exactly when fix
\* mode is off and one of these documents had an issue.
C16_FreshStateEveryRun ==
  /\ (pc \in {"map", "report", "exited"} /\ ~helpShown) =>
       issues = IssuesOf(results, 1)
  /\ (pc = "exited" /\ ~helpShown) =>
       exitCode = IF /\ ~fixMode
                     /\ \E k \in DOMAIN results : Len(results[k].issues) > 0
                  THEN 1 ELSE 0

\* the positions of tag at which an attribute named exactly target, with
\* the quoted value _blank in any accepted form, starts
TargetAttrAt(tag) ==
  {p \in 1..Len(tag) : IsSpace(Ch(tag, p - 1)) /\ TargetAt(tag, p)}

\* tag with RelInsert put in right after the closing quote of its first
\* target attribute
WithRelAfterTarget(tag) ==
  LET close == AttrOpen(tag, Least(TargetAttrAt(tag)), "target") + 7
  IN  SubSeq(tag, 1, close) \o RelInsert \o SubSeq(tag, close + 1, Len(tag))

\* C17 (as claimed): at the end of a fix-mode pass over a document whose one
\* target=_blank tag is violating and has no rel, the text to write is the
\* document with ' rel="noopener noreferrer"' inserted right after the target
\* attribute of the tag and nothing else changed, in whatever accepted form
\* the target attribute is written.
C17_InsertAfterAnyTarget ==
  (/\ LoopDone
   /\ fixMode
   /\ Len(links) = 1
   /\ Violating(links[1])
   /\ links[1].rel = NULL
   /\ \A p \in 1..Len(links[1].tag) : ~MatchCI(links[1].tag, p, "rel")
   /\ TargetAttrAt(links[1].tag) # {})
    => updatedContent =
         SubSeq(htmlContent, 1, links[1].startIndex)
           \o WithRelAfterTarget(links[1].tag)
           \o SubSeq(htmlContent, links[1].endIndex + 1, Len(htmlContent))

\* the tags of text: every '<' with the first '>' after it, as a pair of
\* 1-based positions
TagSpans(text) ==
  {<<k, NextChar(text, k, ">")>> :
     k \in {j \in 1..Len(text) :
              Ch(text, j) = "<" /\ NextChar(text, j, ">") <= Len(text)}}

\* the tag at span is the opening tag of an element named exactly a
IsAnchorOpening(text, span) ==
  /\ MatchCI(text, span[1] + 1, "a")
  /\ IsSpace(Ch(text, span[1] + 2)) \/ span[1] + 2 = span[2]

\* the tag at span has an attribute named exactly target with the quoted
\* value _blank
HasTargetBlank(text, span) ==
  \E p \in (span[1] + 1)..(span[2] - 1) :
    IsSpace(Ch(text, p - 1)) /\ TargetAt(text, p)

\* C18 (as claimed): the matches of the scan are exactly the tags of the
\* document that are opening tags of an element named exactly a and have an
\* attribute named exactly target whose quoted value is _blank; no other
\* element and no other attribute name gives a match.
C18_MatchIffAnchorWithTarget ==
  InCheckFile =>
    {<<links[k].startIndex + 1, links[k].endIndex>> : k \in DOMAIN links}
      = {span \in TagSpans(htmlContent) :
           IsAnchorOpening(htmlContent, span) /\ HasTargetBlank(htmlContent, span)}

\* tag has an attribute named exactly name
HasExactAttr(tag, name) == \E p \in 1..Len(tag) : ExactAttrAt(tag, p, name)

\* C19 (as claimed): for every match, the href is the value of the first
\* attribute of the tag named exactly href and is absent exactly when the
\* tag has no such attribute, and likewise the rel, each whatever the other
\* attribute is and wherever the two stand in the tag.
C19_FirstExactAttribute ==
  InCheckFile =>
    \A k \in DOMAIN links :
      /\ links[k].href = ExactAttr(links[k].tag, "href")
      /\ links[k].href = NULL <=> ~HasExactAttr(links[k].tag, "href")
      /\ links[k].rel = ExactAttr(links[k].tag, "rel")
      /\ links[k].rel = NULL <=> ~HasExactAttr(links[k].tag, "rel")

\* C20: every match of the scan is the text of the document from its
\* startIndex to its endIndex, begins with '<a' (in either letter case, as
\* the scan ignores case), ends with '>' and holds no other '>', and its
\* endIndex is its startIndex plus its length; the matches are in document
\* order, each one ending before the next one starts; and the document is
\* after the scan what it was before.
C20_MatchesAreTagSpans ==
  InCheckFile =>
    /\ \A k \in DOMAIN links :
         /\ links[k].startIndex >= 0
         /\ links[k].endIndex <= Len(htmlContent)
         /\ links[k].tag
              = SubSeq(htmlContent, links[k].startIndex + 1, links[k].endIndex)
         /\ SubSeq(links[k].tag, 1, 2) \in {"<a", "<A"}
         /\ Ch(links[k].tag, Len(links[k].tag)) = ">"
         /\ CountChar(links[k].tag, ">") = 1
         /\ links[k].endIndex = links[k].startIndex + Len(links[k].tag)
    /\ \A j, k \in DOMAIN links :
         j < k => links[j].endIndex <= links[k].startIndex
    /\ htmlContent = disk[filename]

C20_Witness ==
  /\ InCheckFile
  /\ Len(links) = 2
  /\ SubSeq(links[1].tag, 1, 2) = "<A"
  /\ CountChar(links[1].tag, "\n") = 1
  /\ links[1].endIndex < links[2].startIndex

\* C21: in fix mode, whenever the loop is about to handle a match, the
\* working copy is the text read up to the end of that match: every edit made
\* so far lies at or after its endIndex, and the working copy holds, at the
\* offsets of that match and of every match before it, the tag as matched.
C21_OffsetsStayValid ==
  (pc = "loop" /\ i >= 0 /\ fixMode) =>
    /\ SubSeq(updatedContent, 1, links[i + 1].endIndex)
         = SubSeq(htmlContent, 1, links[i + 1].endIndex)
    /\ \A k \in 1..(i + 1) :
         SubSeq(updatedContent, links[k].startIndex + 1, links[k].endIndex)
           = links[k].tag

\* the loop has remediated the second match, which changed the length of
\* the text, and is about to remediate the first
C21_Witness ==
  /\ pc = "loop"
  /\ i = 0
  /\ fixMode
  /\ Len(links) = 2
  /\ Violating(links[1])
  /\ Len(updatedContent) > Len(htmlContent)

\* C22: within a run, a step that returns the result of a document leaves
\* the aggregate issue list as it was, extended at the end by the issues of
\* that result, which are none when the result is an error; no other step of
\* the run changes the list; and when the run reports, the list is the
\* concatenation of the issues of the results in document order.
C22_IssuesAppendOnly ==
  [][/\ pc \in {"map", "loop", "report"} =>
          IF Len(results') = Len(results) + 1
          THEN LET result == results'[Len(results')]
               IN  /\ issues' = issues \o result.issues
                   /\ result.error # NULL => issues' = issues
          ELSE issues' = issues
     /\ pc = "report" => issues = IssuesOf(results, 1)]_vars

\* a run over two documents with one issue each has ended
C22_Witness ==
  /\ pc = "exited"
  /\ Len(results) = 2
  /\ Len(results[1].issues) = 1
  /\ Len(results[2].issues) = 1
  /\ issues = results[1].issues \o results[2].issues
  /\ issues[1].file # issues[2].file

\* the write attempts of the current run on the file f
WritesOf(log, f) == {j \in DOMAIN log : log[j] = [op |-> "write", file |-> f]}

C24_LastWriterWins ==
  [][(/\ pc = "loop"
      /\ i < 0
      /\ fixMode
      /\ hasChanges
      /\ disk[filename] # htmlContent
      /\ Len(results') = Len(results) + 1
      /\ results'[Len(results')].error = NULL)
       => /\ disk'[filename] = Spliced(htmlContent, links, 1, 0)
          /\ disk'[filename] # disk[filename]
          /\ results'[Len(results')].issues = fileIssues
          /\ results'[Len(results')].fixed]_vars

\* a run has ended in which the tool overwrote another writer's text
C24_Witness ==
  /\ pc = "exited"
  /\ lostEdits # {}
  /\ \A f \in lostEdits : disk[f] # ForeignDoc
  /\ \A k \in DOMAIN results : results[k].error = NULL

\* the arguments of the current run that are not flags
NonFlagArgs == {args[k] : k \in {j \in DOMAIN args :
                                   args[j] \notin {"--fix", "--help", "-h"}}}

\* the files that the current run has audited, read or tried to write
Touched ==
  {filesToCheck[k] : k \in DOMAIN filesToCheck}
    \cup {ioLog[k].file : k \in DOMAIN ioLog}
    \cup {writes[k] : k \in DOMAIN writes}

Keys == {"Escape", "Enter", " ", "Tab"}

\* the state when DOMContentLoaded has been handled: the link checker is
\* not running
InitSite == Start({OtherDoc})

\* a click: the listeners of the target run, then those of the document
Click(target) ==
  /\ nav' = NavDocumentClick(NavTargetClick(nav, target), target)
  /\ flip' = FlipDocumentClick(FlipTargetClick(flip, target), target)
  /\ UNCHANGED <<form, theme, spy, win>>
  /\ UNCHANGED tool

\* a keydown: the listeners of the card or of the form it lands on, then
\* those of the document
Keydown(key, ctrlKey, target) ==
  /\ nav' = NavDocumentKeydown(nav, key)
  /\ flip' = FlipDocumentKeydown(FlipTargetKeydown(flip, key, target), key)
  /\ form' = IF target = "field" /\ ctrlKey /\ key = "Enter"
             THEN handleSubmit(form) ELSE form
  /\ UNCHANGED <<theme, spy, win>>
  /\ UNCHANGED tool

\* the submit event of the form
FormSubmit ==
  /\ form' = handleSubmit(form)
  /\ UNCHANGED <<nav, flip, theme, spy, win>>
  /\ UNCHANGED tool

\* a call of ContactForm.submit
SubmitCall ==
  /\ form' = handleSubmit(form)
  /\ UNCHANGED <<nav, flip, theme, spy, win>>
  /\ UNCHANGED tool

\* the promise of submitForm settles, resolved (ok) or rejected
SubmitSettles(ok) ==
  /\ form.pending > 0
  /\ form' = AfterSubmit(form, ok)
  /\ UNCHANGED <<nav, flip, theme, spy, win>>
  /\ UNCHANGED tool

\* a call of ContactForm.reset
ResetCall ==
  /\ form' = resetForm(form)
  /\ UNCHANGED <<nav, flip, theme, spy, win>>
  /\ UNCHANGED tool

\* the input event of a field: the visitor has typed, and the value passes
\* the tests of validateField or not
FieldInput(field, okNow) ==
  /\ form' = clearFieldError(
               [form EXCEPT !.okValues = IF okNow THEN @ \cup {field}
                                         ELSE @ \ {field}],
               field)
  /\ UNCHANGED <<nav, flip, theme, spy, win>>
  /\ UNCHANGED tool

\* the blur event of a field
FieldBlur(field) ==
  /\ form' = validateField(form, field)
  /\ UNCHANGED <<nav, flip, theme, spy, win>>
  /\ UNCHANGED tool

\* five seconds after a success message: it is removed
MessageTimeout ==
  /\ form.message = "success"
  /\ form' = [form EXCEPT !.message = ""]
  /\ UNCHANGED <<nav, flip, theme, spy, win>>
  /\ UNCHANGED tool

\* a call of Navigation.closeMenu
CloseMenuCall ==
  /\ nav' = closeMenu(nav)
  /\ UNCHANGED <<flip, form, theme, spy, win>>
  /\ UNCHANGED tool

\* a call of FlipCards.flipCardByService
FlipCardByServiceCall(serviceType) ==
  /\ flip' = flipCardByService(flip, serviceType)
  /\ UNCHANGED <<nav, form, theme, spy, win>>
  /\ UNCHANGED tool

\* a call of FlipCards.unflipAllCards
UnflipAllCardsCall ==
  /\ flip' = unflipAllCards(flip)
  /\ UNCHANGED <<nav, form, theme, spy, win>>
  /\ UNCHANGED tool

\* a call of ThemeManager.addTheme
AddThemeCall(themeName) ==
  /\ theme' = addTheme(theme, themeName)
  /\ UNCHANGED <<nav, flip, form, spy, win>>
  /\ UNCHANGED tool

\* a call of ThemeManager.setTheme
SetThemeCall(themeName) ==
  /\ theme' = setTheme(theme, themeName)
  /\ UNCHANGED <<nav, flip, form, spy, win>>
  /\ UNCHANGED tool

\* the event theme:change with a theme in its detail
ThemeChangeEvent(themeName) ==
  /\ theme' = setTheme(theme, themeName)
  /\ UNCHANGED <<nav, flip, form, spy, win>>
  /\ UNCHANGED tool

\* a call of ThemeManager.removeTheme
RemoveThemeCall(themeName) ==
  /\ theme' = removeTheme(theme, themeName)
  /\ UNCHANGED <<nav, flip, form, spy, win>>
  /\ UNCHANGED tool

\* the user scrolls to another position: the browser owes a scroll event
UserScroll(y) ==
  /\ y # win.pageYOffset
  /\ win' = [win EXCEPT !.pageYOffset = y, !.scrollDue = TRUE]
  /\ UNCHANGED <<nav, flip, form, theme, spy>>
  /\ UNCHANGED tool

\* the scroll event: the listener of ScrollSpy.bindEvents
ScrollEvent ==
  /\ win.scrollDue
  /\ IF ScrollRequestsFrame(spy)
     THEN /\ spy' = [spy EXCEPT !.ticking = TRUE]
          /\ win' = [win EXCEPT !.scrollDue = FALSE, !.frames = @ + 1]
     ELSE /\ spy' = spy
          /\ win' = [win EXCEPT !.scrollDue = FALSE]
  /\ UNCHANGED <<nav, flip, form, theme>>
  /\ UNCHANGED tool

\* the callback given to requestAnimationFrame
AnimationFrame ==
  /\ win.frames > 0
  /\ spy' = [updateActiveSection(spy, win.pageYOffset)
               EXCEPT !.ticking = FALSE]
  /\ win' = [win EXCEPT !.frames = @ - 1]
  /\ UNCHANGED <<nav, flip, form, theme>>
  /\ UNCHANGED tool

\* the resize event
Resize ==
  /\ spy' = updateActiveSection(spy, win.pageYOffset)
  /\ UNCHANGED <<nav, flip, form, theme, win>>
  /\ UNCHANGED tool

\* the orientationchange event: a timer of 100 ms is set
OrientationChange ==
  /\ ~win.timer
  /\ win' = [win EXCEPT !.timer = TRUE]
  /\ UNCHANGED <<nav, flip, form, theme, spy>>
  /\ UNCHANGED tool

\* the timer of the orientationchange listener fires
OrientationTimeout ==
  /\ win.timer
  /\ spy' = updateActiveSection(spy, win.pageYOffset)
  /\ win' = [win EXCEPT !.timer = FALSE]
  /\ UNCHANGED <<nav, flip, form, theme>>
  /\ UNCHANGED tool

\* the visitor uses the menu, the cards and the contact form
NextWidgets ==
  \/ \E target \in Targets : Click(target)
  \/ \E key \in Keys, ctrlKey \in BOOLEAN, target \in Targets :
       Keydown(key, ctrlKey, target)
  \/ FormSubmit
  \/ SubmitCall
  \/ ResetCall
  \/ \E field \in FormFields, okNow \in BOOLEAN : FieldInput(field, okNow)
  \/ \E field \in FormFields : FieldBlur(field)
  \/ \E ok \in BOOLEAN : SubmitSettles(ok)
  \/ MessageTimeout
  \/ CloseMenuCall
  \/ \E serviceType \in CardSet \cup {"coaching"} :
       FlipCardByServiceCall(serviceType)
  \/ UnflipAllCardsCall

SpecWidgets == InitSite /\ [][NextWidgets]_vars

\* the page is scrolled, resized and turned, and its theme is managed
NextPage ==
  \/ \E themeName \in ThemeNames : AddThemeCall(themeName)
  \/ \E themeName \in ThemeNames : SetThemeCall(themeName)
  \/ \E themeName \in ThemeNames : ThemeChangeEvent(themeName)
  \/ \E themeName \in ThemeNames : RemoveThemeCall(themeName)
  \/ \E y \in ScrollPositions : UserScroll(y)
  \/ ScrollEvent
  \/ AnimationFrame
  \/ Resize
  \/ OrientationChange
  \/ OrientationTimeout

SpecPage == InitSite /\ [][NextPage]_vars

(***************************************************************************)
(* The claims about the web site.                                          *)
(***************************************************************************)
\* C26: ContactForm: however submit events, Ctrl+Enter presses and submit()
\* calls interleave, at most one promise of submitForm is pending,
\* isSubmitting is true exactly while one is pending, and once isSubmitting
\* is cleared, after success or failure, the submit button is enabled again.
C26_OneSubmissionPending ==
  /\ form.pending \in {0, 1}
  /\ form.isSubmitting <=> form.pending = 1
  /\ ~form.isSubmitting => ~form.disabled

\* a submission is pending, its button disabled
C26_Witness ==
  /\ form.pending = 1
  /\ form.isSubmitting
  /\ form.disabled

\* C27: FlipCards: after any clicks, key presses and public calls, at most
\* one card carries the class flipped, aria-pressed is 'true' exactly on the
\* flipped cards, and activeCard is the flipped card, or null when no card
\* is flipped.
C27_OneCardFlipped ==
  /\ Cardinality(flip.flipped) <= 1
  /\ flip.pressed = flip.flipped
  /\ flip.flipped = {} => flip.activeCard = "null"
  /\ \A card \in flip.flipped : flip.activeCard = card

\* the last card is the one that is flipped
C27_Witness ==
  /\ flip.flipped = {"counselling"}
  /\ flip.activeCard = "counselling"

\* C28: Navigation: isMenuOpen is true exactly when aria-expanded of the
\* button is 'true' and exactly when the menu lacks the class hidden, and a
\* click on the menu button toggles the menu exactly once.
C28_MenuStateAgrees ==
  /\ [](/\ nav.isMenuOpen <=> nav.ariaExpanded = "true"
        /\ nav.isMenuOpen <=> ~nav.hidden)
  /\ [][Click("menuBtn") => nav'.isMenuOpen = ~nav.isMenuOpen]_vars

\* the menu is open: the button was clicked and the click was not undone
C28_Witness ==
  /\ nav.isMenuOpen
  /\ ~nav.hidden
  /\ nav.ariaExpanded = "true"
  /\ nav.focus = "menuItem"

\* C29: ThemeManager: after any addTheme, setTheme and removeTheme calls,
\* currentTheme is one of availableThemes, 'default' is still among them,
\* and document.body carries exactly one theme class, that of currentTheme,
\* with data-theme equal to currentTheme.
C29_OneThemeClass ==
  /\ includes(theme.availableThemes, theme.currentTheme)
  /\ includes(theme.availableThemes, "default")
  /\ theme.bodyClasses = {theme.currentTheme}
  /\ theme.dataTheme = theme.currentTheme

\* the section that updateActiveSection computes from the scroll position
ComputedSection == ActiveFrom(win.pageYOffset + scrollOffset, 1, "")

\* C30: ScrollSpy: however many scroll events arrive, at most one callback
\* of requestAnimationFrame is pending, and whenever no scroll event is due
\* and no callback is pending, activeSection is the section computed from
\* the current scroll position.
C30_ThrottledAndUpToDate ==
  /\ win.frames \in {0, 1}
  /\ spy.ticking <=> win.frames = 1
  /\ (~win.scrollDue /\ win.frames = 0) => spy.activeSection = ComputedSection

\* another scroll event arrives while a callback is pending and the active
\* section is out of date
C30_Witness ==
  /\ win.frames = 1
  /\ win.scrollDue
  /\ spy.ticking
  /\ spy.activeSection # ComputedSection

====
